---- MODULE Spec2Model ----
(***************************************************************************)
(* Model of the incident-diagnosis core: decide_agents and                 *)
(* synthesize_verdict (commander_agent.py), analyze_logs (log_agent.py)    *)
(* and analyze_metrics (metrics_agent.py).  Texts are TLA+ strings and the *)
(* keyword tests are character-level substring searches, as Python's `in`. *)
(***************************************************************************)
EXTENDS Integers, Sequences, FiniteSets, TLC

VARIABLES incident, context, selection, log_record, metric_record,
          agent_findings, verdict, synth_input

vars == <<incident, context, selection, log_record, metric_record,
          agent_findings, verdict, synth_input>>

(***************************************************************************)
(* Bounds                                                                  *)
(***************************************************************************)
\* longest list of findings records the runtime hands to synthesize_verdict
MaxRecords == 2

(***************************************************************************)
(* Python text primitives                                                  *)
(***************************************************************************)
\* `kw in text` on str
Contains(text, kw) ==
    \E i \in 1..(Len(text) - Len(kw) + 1) : SubSeq(text, i, i + Len(kw) - 1) = kw

LowerChar(c) ==
    CASE c = "A" -> "a" [] c = "B" -> "b" [] c = "C" -> "c" [] c = "D" -> "d"
      [] c = "E" -> "e" [] c = "F" -> "f" [] c = "G" -> "g" [] c = "H" -> "h"
      [] c = "I" -> "i" [] c = "J" -> "j" [] c = "K" -> "k" [] c = "L" -> "l"
      [] c = "M" -> "m" [] c = "N" -> "n" [] c = "O" -> "o" [] c = "P" -> "p"
      [] c = "Q" -> "q" [] c = "R" -> "r" [] c = "S" -> "s" [] c = "T" -> "t"
      [] c = "U" -> "u" [] c = "V" -> "v" [] c = "W" -> "w" [] c = "X" -> "x"
      [] c = "Y" -> "y" [] c = "Z" -> "z" [] OTHER -> c

\* str.lower()
RECURSIVE Lower(_)
Lower(s) ==
    IF Len(s) = 0 THEN ""
    ELSE IF Len(s) = 1 THEN LowerChar(s)
    ELSE LET m == Len(s) \div 2
         IN  Lower(SubSeq(s, 1, m)) \o Lower(SubSeq(s, m + 1, Len(s)))

\* sep.join(parts)
RECURSIVE Join(_, _)
Join(parts, sep) ==
    IF Len(parts) = 0 THEN ""
    ELSE IF Len(parts) = 1 THEN parts[1]
    ELSE parts[1] \o sep \o Join(Tail(parts), sep)

\* any(k in text for k in keywords)
AnyIn(keywords, text) == \E k \in keywords : Contains(text, k)

\* the orders list(set(xs)) can produce: every arrangement of the distinct items
ListOfSet(xs) ==
    LET S == {xs[i] : i \in DOMAIN xs}
    IN  {p \in [1..Cardinality(S) -> S] : \A i, j \in DOMAIN p : i # j => p[i] # p[j]}

(***************************************************************************)
(* Serialization.  A dict {category: [phrase, ...]} is a sequence of       *)
(* [k, v] pairs in insertion order; phrases hold no quote or backslash and *)
(* only ASCII, so neither repr nor json.dumps escapes anything.            *)
(***************************************************************************)
\* json.dumps of a str
JsonStr(s) == "\"" \o s \o "\""

\* json.dumps of a list of str
JsonList(xs) == "[" \o Join([i \in DOMAIN xs |-> JsonStr(xs[i])], ", ") \o "]"

\* json.dumps of a dict str -> list of str
JsonDict(d) ==
    "{" \o Join([i \in DOMAIN d |-> JsonStr(d[i].k) \o ": " \o JsonList(d[i].v)], ", ") \o "}"

\* json.dumps of the evidence dict flag -> True
JsonFlags(fs) ==
    "{" \o Join([i \in DOMAIN fs |-> JsonStr(fs[i]) \o ": true"], ", ") \o "}"

\* str() of a str inside a container
PyReprStr(s) == "'" \o s \o "'"

PyReprList(xs) == "[" \o Join([i \in DOMAIN xs |-> PyReprStr(xs[i])], ", ") \o "]"

\* str() of a dict str -> list of str
PyStrDict(d) ==
    "{" \o Join([i \in DOMAIN d |-> PyReprStr(d[i].k) \o ": " \o PyReprList(d[i].v)], ", ") \o "}"

\* dict.get(key, {})
Get(d, key) == IF key \in DOMAIN d THEN d[key] ELSE <<>>

KeyError == [error |-> "KeyError"]
None == [none |-> TRUE]
IsResult(r) == DOMAIN r # {"error"} /\ DOMAIN r # {"none"}

(***************************************************************************)
(* commander_agent.py: decide_agents                                       *)
(***************************************************************************)
\* variant: "connection" counted among the log symptoms
LogsKeywords_WithConnection ==
    {"latency", "timeout", "retry", "error", "circuit", "failure", "connection"}

LogsKeywords == {"latency", "timeout", "retry", "error", "circuit", "failure"}

MetricsKeywords ==
    {"capacity", "exhaustion", "connections", "autoscaling", "saturation", "usage"}

DeployKeywords == {"deployment", "config", "change", "release"}

\* str(incident.get("expected_symptoms", {})).lower()
expected_text(inc) == Lower(PyStrDict(Get(inc, "expected_symptoms")))

\* variant: the three tests chained with elif
selected_agents_elif(expected) ==
    IF AnyIn(LogsKeywords, expected) THEN <<"logs_agent">>
    ELSE IF AnyIn(MetricsKeywords, expected) THEN <<"metrics_agent">>
    ELSE IF AnyIn(DeployKeywords, expected) THEN <<"deploy_intelligence_agent">>
    ELSE <<>>

\* the agents list before deduplication
selected_agents(expected) ==
    (IF AnyIn(LogsKeywords, expected) THEN <<"logs_agent">> ELSE <<>>)
    \o (IF AnyIn(MetricsKeywords, expected) THEN <<"metrics_agent">> ELSE <<>>)
    \o (IF AnyIn(DeployKeywords, expected) THEN <<"deploy_intelligence_agent">> ELSE <<>>)

\* variant: incident.get("incident_id", "unknown")
decide_agents_default_id(inc) ==
    {[incident_id |-> IF "incident_id" \in DOMAIN inc THEN inc["incident_id"] ELSE "unknown",
      agents_to_call |-> p] : p \in ListOfSet(selected_agents(expected_text(inc)))}

\* the possible outcomes of decide_agents(incident): list(set(agents)) fixes no order
decide_agents(inc) ==
    IF "incident_id" \notin DOMAIN inc THEN {KeyError}
    ELSE {[incident_id |-> inc["incident_id"], agents_to_call |-> p] :
             p \in ListOfSet(selected_agents(expected_text(inc)))}

(***************************************************************************)
(* log_agent.py: analyze_logs                                              *)
(***************************************************************************)
LogHypothesis ==
    "Log patterns indicate downstream database connection saturation "
    \o "triggering retries and circuit breaker activation"

\* json.dumps(logs).lower()
logs_text(ctx) == Lower(JsonDict(Get(ctx, "logs")))

\* variant: the second phrase of the test dropped
connection_limit_trigger_first_only(text) == Contains(text, "too many connections")

connection_limit_trigger(text) ==
    Contains(text, "too many connections") \/ Contains(text, "connection pool exhausted")

\* the findings list and the evidence keys after the four tests, in order
log_findings(text) ==
    (IF Contains(text, "timeout")
        THEN <<"Application experienced database timeouts">> ELSE <<>>)
    \o (IF Contains(text, "retry")
        THEN <<"Retry storms detected in application logs">> ELSE <<>>)
    \o (IF connection_limit_trigger(text)
        THEN <<"Database rejected connections due to connection limit">> ELSE <<>>)
    \o (IF Contains(text, "circuit")
        THEN <<"Circuit breakers activated under load">> ELSE <<>>)

log_evidence(text) ==
    (IF Contains(text, "timeout") THEN <<"timeouts">> ELSE <<>>)
    \o (IF Contains(text, "retry") THEN <<"retry_storms">> ELSE <<>>)
    \o (IF connection_limit_trigger(text) THEN <<"connection_exhaustion">> ELSE <<>>)
    \o (IF Contains(text, "circuit") THEN <<"circuit_breaker">> ELSE <<>>)

\* the possible outcomes of analyze_logs({"incident": inc, "context": ctx})
analyze_logs(inc, ctx) ==
    IF "incident_id" \notin DOMAIN inc THEN {KeyError}
    ELSE {[agent |-> "log_agent",
           incident_id |-> inc["incident_id"],
           findings |-> p,
           evidence |-> log_evidence(logs_text(ctx)),
           hypothesis |-> LogHypothesis,
           confidence |-> "0.93"] : p \in ListOfSet(log_findings(logs_text(ctx)))}

(***************************************************************************)
(* metrics_agent.py: analyze_metrics                                       *)
(***************************************************************************)
MetricHypothesis ==
    "Metrics indicate database capacity constrained by connection limits "
    \o "rather than compute resources, amplified by application autoscaling"

\* json.dumps(metrics).lower()
metrics_text(ctx) == Lower(JsonDict(Get(ctx, "metrics")))

saturation_trigger(text) ==
    Contains(text, "connection") /\ (Contains(text, "1.0") \/ Contains(text, "100"))

scaling_trigger(text) == Contains(text, "replica") \/ Contains(text, "autoscale")

latency_trigger(text) ==
    Contains(text, "latency") \/ Contains(text, "p99") \/ Contains(text, "p95")

cpu_trigger(text) == Contains(text, "cpu") /\ Contains(text, "low")

metric_findings(text) ==
    (IF saturation_trigger(text)
        THEN <<"Database active connections reached maximum capacity">> ELSE <<>>)
    \o (IF scaling_trigger(text)
        THEN <<"Application autoscaled rapidly under traffic spike">> ELSE <<>>)
    \o (IF latency_trigger(text)
        THEN <<"Latency increased in correlation with load and saturation">> ELSE <<>>)
    \o (IF cpu_trigger(text)
        THEN <<"Database CPU remained underutilized during incident">> ELSE <<>>)

metric_evidence(text) ==
    (IF saturation_trigger(text) THEN <<"db_connection_saturation">> ELSE <<>>)
    \o (IF scaling_trigger(text) THEN <<"autoscaling_event">> ELSE <<>>)
    \o (IF latency_trigger(text) THEN <<"latency_spike">> ELSE <<>>)
    \o (IF cpu_trigger(text) THEN <<"cpu_not_bottleneck">> ELSE <<>>)

\* the possible outcomes of analyze_metrics({"incident": inc, "context": ctx})
analyze_metrics(inc, ctx) ==
    IF "incident_id" \notin DOMAIN inc THEN {KeyError}
    ELSE {[agent |-> "metric_agent",
           incident_id |-> inc["incident_id"],
           findings |-> p,
           evidence |-> metric_evidence(metrics_text(ctx)),
           hypothesis |-> MetricHypothesis,
           confidence |-> "0.91"] : p \in ListOfSet(metric_findings(metrics_text(ctx)))}

(***************************************************************************)
(* commander_agent.py: synthesize_verdict                                  *)
(***************************************************************************)
\* variant: only the findings of a record are serialized
JsonRecord_findings_only(f) == JsonList(f.findings)

\* json.dumps(f) of one findings record, keys in construction order
JsonRecord(f) ==
    "{" \o "\"agent\": " \o JsonStr(f.agent)
    \o ", \"incident_id\": " \o JsonStr(f.incident_id)
    \o ", \"findings\": " \o JsonList(f.findings)
    \o ", \"evidence\": " \o JsonFlags(f.evidence)
    \o ", \"hypothesis\": " \o JsonStr(f.hypothesis)
    \o ", \"confidence\": " \o f.confidence \o "}"

\* " ".join(json.dumps(f).lower() for f in agent_findings)
combined_text(findings_list) ==
    Join([i \in DOMAIN findings_list |-> Lower(JsonRecord(findings_list[i]))], " ")

Undetermined == "Undetermined"

PoolExhaustionNarrative ==
    "Database connection pool exhaustion caused by "
    \o "application scaling without corresponding database capacity"

connection_rule(text) == Contains(text, "connection") \/ Contains(text, "dbtimeout")

\* variant: root_cause initialised to the empty string
root_cause_of_unset(text) ==
    IF connection_rule(text) THEN PoolExhaustionNarrative ELSE ""

\* variant: the first matching rule of the chain names the root cause
root_cause_of_first_match(text) ==
    IF connection_rule(text) THEN PoolExhaustionNarrative
    ELSE IF Contains(text, "retry") THEN "Retry storms amplified database pressure"
    ELSE Undetermined

root_cause_of(text) ==
    IF connection_rule(text) THEN PoolExhaustionNarrative ELSE Undetermined

\* variant: the rules chained with elif
failure_summary_elif(text) ==
    IF connection_rule(text) THEN <<"Database max_connections limit exceeded">>
    ELSE IF Contains(text, "retry") THEN <<"Retry storms amplified database pressure">>
    ELSE IF Contains(text, "autoscaling")
         THEN <<"Application autoscaled without database capacity alignment">>
    ELSE <<>>

\* variant: the retry rule assigns the list instead of appending to it
failure_summary_retry_assigns(text) ==
    (IF Contains(text, "retry")
        THEN <<"Retry storms amplified database pressure">>
        ELSE IF connection_rule(text)
             THEN <<"Database max_connections limit exceeded">> ELSE <<>>)
    \o (IF Contains(text, "autoscaling")
        THEN <<"Application autoscaled without database capacity alignment">> ELSE <<>>)

\* variant: the retry rule placed before the connection rule
failure_summary_retry_first(text) ==
    (IF Contains(text, "retry")
        THEN <<"Retry storms amplified database pressure">> ELSE <<>>)
    \o (IF connection_rule(text)
        THEN <<"Database max_connections limit exceeded">> ELSE <<>>)
    \o (IF Contains(text, "autoscaling")
        THEN <<"Application autoscaled without database capacity alignment">> ELSE <<>>)

failure_summary_of(text) ==
    (IF connection_rule(text)
        THEN <<"Database max_connections limit exceeded">> ELSE <<>>)
    \o (IF Contains(text, "retry")
        THEN <<"Retry storms amplified database pressure">> ELSE <<>>)
    \o (IF Contains(text, "autoscaling")
        THEN <<"Application autoscaled without database capacity alignment">> ELSE <<>>)

immediate_of(text) ==
    (IF connection_rule(text)
        THEN <<"Increase database max_connections temporarily">> ELSE <<>>)
    \o (IF Contains(text, "deployment") \/ Contains(text, "config")
        THEN <<"Rollback recent configuration deployment">> ELSE <<>>)

short_term_of(text) ==
    IF Contains(text, "autoscaling")
        THEN <<"Reduce application replica count">> ELSE <<>>

long_term_actions ==
    <<"Introduce centralized connection pooling",
      "Implement capacity-aware autoscaling",
      "Add read replicas or shard database workload">>

\* the rule chain and the returned dict, given combined_text
verdict_for(inc, text) ==
    IF "incident_id" \notin DOMAIN inc \/ "severity" \notin DOMAIN inc
    THEN KeyError
    ELSE [incident_id |-> inc["incident_id"],
          severity |-> inc["severity"],
          root_cause |-> root_cause_of(text),
          failure_summary |-> failure_summary_of(text),
          recommended_actions |->
              [immediate |-> immediate_of(text),
               short_term |-> short_term_of(text),
               long_term |-> long_term_actions],
          confidence |-> "0.92"]

\* combined_text is built once and then tested by every rule
synthesize_verdict(inc, findings_list) ==
    CHOOSE v \in {verdict_for(inc, text) : text \in {combined_text(findings_list)}} : TRUE

(***************************************************************************)
(* Inputs: incidents and observability contexts                            *)
(***************************************************************************)
Pair(key, val) == [k |-> key, v |-> val]

\* the incident of the demo (commander_agent.py, __main__)
DemoSymptoms ==
    <<Pair("application", <<"increased latency", "database timeouts", "retry storms">>),
      Pair("database", <<"high connection usage", "connection pool exhaustion">>),
      Pair("infrastructure", <<"autoscaling mismatch">>)>>

PoolAndScalingSymptoms ==
    <<Pair("application", <<>>),
      Pair("database", <<"connection pool exhaustion">>),
      Pair("infrastructure", <<"autoscaling mismatch">>)>>

ReleaseSymptoms == <<Pair("application", <<"release">>)>>

TwoGroupSymptoms ==
    <<Pair("application", <<"Circuit breaker open">>),
      Pair("infrastructure", <<"Config Change rolled out">>)>>

QuietSymptoms == <<Pair("application", <<"slow checkout page">>)>>

Inc(id, sev, symptoms) ==
    [key \in {"incident_id", "severity", "expected_symptoms"} |->
        CASE key = "incident_id" -> id
          [] key = "severity" -> sev
          [] OTHER -> symptoms]

Without(inc, key) == [x \in (DOMAIN inc) \ {key} |-> inc[x]]

Incidents ==
    {Inc("inc-db-5001", "SEV-1", DemoSymptoms),
     Inc("inc-db-5002", "SEV-2", PoolAndScalingSymptoms),
     Inc("inc-rel-7", "SEV-3", ReleaseSymptoms),
     Inc("inc-config-9", "SEV-2", TwoGroupSymptoms),
     Inc("inc-ui-3", "SEV-4", QuietSymptoms),
     Inc("inc-ui-4", "SEV-4", <<>>),
     Without(Inc("inc-ui-4", "SEV-4", QuietSymptoms), "expected_symptoms"),
     Without(Inc("inc-db-5001", "SEV-1", DemoSymptoms), "incident_id"),
     Without(Inc("inc-ui-3", "SEV-4", QuietSymptoms), "severity")}

Ctx(logs, metrics) ==
    [key \in {"logs", "metrics"} |-> IF key = "logs" THEN logs ELSE metrics]

OutageLogs ==
    <<Pair("application", <<"Retry attempt 3", "retry attempt 4">>),
      Pair("database", <<"FATAL: Too Many Connections">>)>>

OutageMetrics ==
    <<Pair("database", <<"active_connections 100">>),
      Pair("infrastructure", <<"autoscale event: 4 -> 12 pods">>)>>

PoolLogs == <<Pair("database", <<"connection pool exhausted", "circuit open">>)>>

ReplicaMetrics == <<Pair("infrastructure", <<"replica count 12", "connection ratio 1.0">>)>>

TimeoutLogs == <<Pair("application", <<"DBTimeout after 30s">>)>>

LatencyMetrics == <<Pair("application", <<"p99 900ms">>), Pair("database", <<"CPU low">>)>>

ConnectionLogs == <<Pair("database", <<"too many connections">>)>>

AutoscaleMetrics == <<Pair("infrastructure", <<"autoscale">>)>>

QuietLogs == <<Pair("high_level", <<"service healthy">>)>>

QuietMetrics == <<Pair("application", <<"requests 12">>)>>

Contexts ==
    {Ctx(OutageLogs, OutageMetrics),
     Ctx(PoolLogs, ReplicaMetrics),
     Ctx(TimeoutLogs, LatencyMetrics),
     Ctx(ConnectionLogs, AutoscaleMetrics),
     Ctx(QuietLogs, QuietMetrics),
     Ctx(<<>>, <<>>),
     Without(Without(Ctx(<<>>, <<>>), "logs"), "metrics")}

(***************************************************************************)
(* State machine: the runtime calls the tools and collects their records   *)
(***************************************************************************)
Init ==
    /\ incident \in Incidents
    /\ context \in Contexts
    /\ selection = None
    /\ log_record = None
    /\ metric_record = None
    /\ agent_findings = <<>>
    /\ verdict = None
    /\ synth_input = <<>>

DecideAgents ==
    /\ selection = None
    /\ selection' \in decide_agents(incident)
    /\ UNCHANGED <<incident, context, log_record, metric_record,
                   agent_findings, verdict, synth_input>>

\* selection completes before the extractors run; the two extractors share no
\* state, so the model runs them in one order
AnalyzeLogs ==
    /\ selection # None
    /\ log_record = None
    /\ log_record' \in analyze_logs(incident, context)
    /\ UNCHANGED <<incident, context, selection, metric_record,
                   agent_findings, verdict, synth_input>>

AnalyzeMetrics ==
    /\ log_record # None
    /\ metric_record = None
    /\ metric_record' \in analyze_metrics(incident, context)
    /\ UNCHANGED <<incident, context, selection, log_record,
                   agent_findings, verdict, synth_input>>

\* the runtime adds a returned findings record to the list it will pass on
CollectFindings ==
    /\ metric_record # None
    /\ Len(agent_findings) < MaxRecords
    /\ \E r \in {log_record, metric_record} :
          /\ IsResult(r)
          /\ agent_findings' = Append(agent_findings, r)
    /\ UNCHANGED <<incident, context, selection, log_record, metric_record,
                   verdict, synth_input>>

\* a repeated call on the same list returns the same verdict and is left out
SynthesizeVerdict ==
    /\ selection # None
    /\ verdict = None \/ synth_input # agent_findings
    /\ verdict' = synthesize_verdict(incident, agent_findings)
    /\ synth_input' = agent_findings
    /\ UNCHANGED <<incident, context, selection, log_record, metric_record,
                   agent_findings>>

Next ==
    \/ DecideAgents
    \/ AnalyzeLogs
    \/ AnalyzeMetrics
    \/ CollectFindings
    \/ SynthesizeVerdict

Spec == Init /\ [][Next]_vars

(***************************************************************************)
(* synthesize_verdict takes any list of findings records.  Besides the two *)
(* extractors' records the runtime can pass records of the third role      *)
(* decide_agents names, deploy_intelligence_agent, whose text is free.     *)
(***************************************************************************)
DeployRecord(id, finding, flag) ==
    [agent |-> "deploy_intelligence_agent",
     incident_id |-> id,
     findings |-> <<finding>>,
     evidence |-> <<flag>>,
     hypothesis |-> "Recent release altered service settings",
     confidence |-> "0.8"]

DeployRecords(id) ==
    {DeployRecord(id, "Config deployment rolled out before incident", "recent_rollout"),
     DeployRecord(id, "Retry budget raised in release 42", "client_policy_edit"),
     DeployRecord(id, "Autoscaling policy edited in release 42", "scaling_policy_edit"),
     DeployRecord(id, "DBTimeout setting lowered in release 42", "pool_setting_edit")}

InitRelease ==
    /\ Init
    /\ incident \in {Inc("inc-rel-7", "SEV-3", ReleaseSymptoms),
                      Inc("inc-ui-3", "SEV-4", QuietSymptoms)}
    /\ context \in {Ctx(ConnectionLogs, AutoscaleMetrics), Ctx(QuietLogs, QuietMetrics)}

\* the runtime adds a record of the deploy intelligence agent to the list
CollectDeployFindings ==
    /\ metric_record # None
    /\ Len(agent_findings) < MaxRecords
    /\ \E r \in DeployRecords(incident["incident_id"]) :
          agent_findings' = Append(agent_findings, r)
    /\ UNCHANGED <<incident, context, selection, log_record, metric_record,
                   verdict, synth_input>>

NextRelease ==
    \/ DecideAgents
    \/ AnalyzeLogs
    \/ AnalyzeMetrics
    \/ CollectFindings
    \/ CollectDeployFindings
    \/ SynthesizeVerdict

SpecRelease == InitRelease /\ [][NextRelease]_vars

(***************************************************************************)
(* Properties                                                              *)
(***************************************************************************)
Range(xs) == {xs[i] : i \in DOMAIN xs}

NoDuplicates(xs) == \A i, j \in DOMAIN xs : i # j => xs[i] # xs[j]

\* a is obtained from b by deleting entries (same relative order)
RECURSIVE IsSubsequence(_, _)
IsSubsequence(a, b) ==
    IF Len(a) = 0 THEN TRUE
    ELSE IF Len(b) = 0 THEN FALSE
    ELSE IF Head(a) = Head(b) THEN IsSubsequence(Tail(a), Tail(b))
    ELSE IsSubsequence(a, Tail(b))

Before(x, y, xs) == \E i, j \in DOMAIN xs : i < j /\ xs[i] = x /\ xs[j] = y

Roles == {"logs_agent", "metrics_agent", "deploy_intelligence_agent"}

MaxConnectionsEntry == "Database max_connections limit exceeded"
RetryStormEntry == "Retry storms amplified database pressure"
AlignmentEntry == "Application autoscaled without database capacity alignment"

ThreeFixedEntries ==
    <<"Introduce centralized connection pooling",
      "Implement capacity-aware autoscaling",
      "Add read replicas or shard database workload">>

\* both extractors ran on a context in which no trigger fired, and exactly
\* their two records were passed to synthesize_verdict
QuietRecordsSynthesized ==
    /\ IsResult(log_record) /\ IsResult(metric_record) /\ IsResult(verdict)
    /\ log_record.findings = <<>> /\ log_record.evidence = <<>>
    /\ metric_record.findings = <<>> /\ metric_record.evidence = <<>>
    /\ synth_input \in {<<log_record, metric_record>>, <<metric_record, log_record>>}

\* C1: scenario B -- when no trigger fires in either extractor and the two
\* records are synthesized, root_cause is "Undetermined", failure_summary is
\* empty and long_term is exactly the three fixed entries.
C1_ScenarioB ==
    QuietRecordsSynthesized =>
        /\ verdict.root_cause = "Undetermined"
        /\ verdict.failure_summary = <<>>
        /\ verdict.recommended_actions.long_term = ThreeFixedEntries

HasSymptoms(symptoms) ==
    /\ "expected_symptoms" \in DOMAIN incident
    /\ incident["expected_symptoms"] = symptoms

\* C2 as stated: with only "connection pool exhaustion" and "autoscaling
\* mismatch" as symptoms, decide_agents returns {logs_agent, metrics_agent}.
C2_ScenarioA_Selection ==
    (HasSymptoms(PoolAndScalingSymptoms) /\ IsResult(selection)) =>
        Range(selection.agents_to_call) = {"logs_agent", "metrics_agent"}

\* C2 amended: with only those two phrases, decide_agents returns
\* {metrics_agent}; neither phrase holds a keyword of the logs group.
C2_ScenarioA_MetricsOnly ==
    (HasSymptoms(PoolAndScalingSymptoms) /\ IsResult(selection)) =>
        /\ Range(selection.agents_to_call) = {"metrics_agent"}
        /\ Len(selection.agents_to_call) = 1

C2_Witness == HasSymptoms(PoolAndScalingSymptoms) /\ IsResult(selection)

ScenarioASynthesized ==
    /\ IsResult(log_record) /\ IsResult(metric_record) /\ IsResult(verdict)
    /\ Contains(logs_text(context), "too many connections")
    /\ Contains(metrics_text(context), "autoscale")
    /\ Range(synth_input) = {log_record, metric_record}

\* C3: scenario A synthesis -- logs with "too many connections" and metrics
\* with "autoscale" give the pool-exhaustion root cause, both the
\* max_connections and the alignment entries, and "Reduce application
\* replica count" among the short-term actions.
C3_ScenarioA_Synthesis ==
    ScenarioASynthesized =>
        /\ verdict.root_cause =
             "Database connection pool exhaustion caused by "
             \o "application scaling without corresponding database capacity"
        /\ MaxConnectionsEntry \in Range(verdict.failure_summary)
        /\ AlignmentEntry \in Range(verdict.failure_summary)
        /\ "Reduce application replica count"
             \in Range(verdict.recommended_actions.short_term)

C3_Witness == ScenarioASynthesized /\ Len(synth_input) = 2

GroupOf(role) ==
    CASE role = "logs_agent" ->
           {"latency", "timeout", "retry", "error", "circuit", "failure"}
      [] role = "metrics_agent" ->
           {"capacity", "exhaustion", "connections", "autoscaling", "saturation", "usage"}
      [] role = "deploy_intelligence_agent" ->
           {"deployment", "config", "change", "release"}

SelectedByOwnGroup(agents, text) ==
    \A role \in Roles :
        role \in Range(agents) <=> (\E k \in GroupOf(role) : Contains(text, k))

\* C4: agents_to_call is duplicate-free, within the three roles, and holds a
\* role exactly when a keyword of that role's own group occurs in the
\* lowercased symptoms text; "release" alone selects only the deploy agent.
C4_IndependentGroups ==
    IsResult(selection) =>
        /\ NoDuplicates(selection.agents_to_call)
        /\ Range(selection.agents_to_call) \subseteq Roles
        /\ \A text \in {expected_text(incident)} :
              SelectedByOwnGroup(selection.agents_to_call, text)
        /\ HasSymptoms(ReleaseSymptoms) =>
             selection.agents_to_call = <<"deploy_intelligence_agent">>

C4_Witness ==
    /\ IsResult(selection)
    /\ HasSymptoms(TwoGroupSymptoms)
    /\ Len(selection.agents_to_call) = 2

Tiers(v) ==
    <<v.failure_summary, v.recommended_actions.immediate,
      v.recommended_actions.short_term, v.recommended_actions.long_term>>

ExtraRecords == {r \in {log_record, metric_record} : IsResult(r)}

\* every tier of v is a subsequence of the same tier of more
AllKept(v, more) == \A t \in 1..4 : IsSubsequence(Tiers(v)[t], Tiers(more)[t])

\* C5: monotonic in evidence -- every entry of failure_summary, immediate,
\* short_term and long_term of the verdict for a list L is kept, in the same
\* relative order, in the verdict for L with one more record appended.
C5_Monotonic ==
    IsResult(verdict) =>
        \A r \in ExtraRecords :
           \A more \in {synthesize_verdict(incident, Append(synth_input, r))} :
              AllKept(verdict, more)

\* a record that puts a new entry between two entries already present
C5_Witness ==
    /\ IsResult(verdict)
    /\ verdict.failure_summary = <<MaxConnectionsEntry, AlignmentEntry>>
    /\ \E r \in ExtraRecords :
          synthesize_verdict(incident, Append(synth_input, r)).failure_summary
             = <<MaxConnectionsEntry, RetryStormEntry, AlignmentEntry>>

HasBoth(text, a, b) == Contains(text, a) /\ Contains(text, b)

\* C6: failure_summary is a duplicate-free subsequence of [max_connections,
\* retry-storm, alignment] whatever the order of the records, and holds the
\* first two, in that order, when the text has "connection" and "retry".
C6_RuleChainOrder ==
    IsResult(verdict) =>
        /\ NoDuplicates(verdict.failure_summary)
        /\ IsSubsequence(verdict.failure_summary,
                         <<MaxConnectionsEntry, RetryStormEntry, AlignmentEntry>>)
        /\ \A text \in {combined_text(synth_input)} :
              HasBoth(text, "connection", "retry")
                => Before(MaxConnectionsEntry, RetryStormEntry, verdict.failure_summary)

\* the record with the retry evidence comes last in the list
C6_Witness ==
    /\ IsResult(verdict) /\ IsResult(log_record) /\ IsResult(metric_record)
    /\ synth_input = <<metric_record, log_record>>
    /\ "retry_storms" \in Range(log_record.evidence)
    /\ Contains(combined_text(synth_input), "retry")

\* the trigger tables of the two extractors: condition, finding, flag
LogTable(text) ==
    {<<Contains(text, "timeout"),
       "Application experienced database timeouts", "timeouts">>,
     <<Contains(text, "retry"),
       "Retry storms detected in application logs", "retry_storms">>,
     <<Contains(text, "too many connections") \/ Contains(text, "connection pool exhausted"),
       "Database rejected connections due to connection limit", "connection_exhaustion">>,
     <<Contains(text, "circuit"),
       "Circuit breakers activated under load", "circuit_breaker">>}

MetricTable(text) ==
    {<<Contains(text, "connection") /\ (Contains(text, "1.0") \/ Contains(text, "100")),
       "Database active connections reached maximum capacity", "db_connection_saturation">>,
     <<Contains(text, "replica") \/ Contains(text, "autoscale"),
       "Application autoscaled rapidly under traffic spike", "autoscaling_event">>,
     <<Contains(text, "latency") \/ Contains(text, "p99") \/ Contains(text, "p95"),
       "Latency increased in correlation with load and saturation", "latency_spike">>,
     <<Contains(text, "cpu") /\ Contains(text, "low"),
       "Database CPU remained underutilized during incident", "cpu_not_bottleneck">>}

ExactlyFired(record, table) ==
    LET fired == {e \in table : e[1]}
    IN  /\ Range(record.evidence) = {e[3] : e \in fired}
        /\ NoDuplicates(record.evidence)
        /\ Range(record.findings) = {e[2] : e \in fired}
        /\ NoDuplicates(record.findings)
        /\ Len(record.findings) = Cardinality(fired)
        /\ (record.findings = <<>>) <=> (record.evidence = <<>>)

\* C7: evidence holds exactly the flags of the fired triggers and findings
\* exactly one string per fired trigger, without duplicates however often a
\* keyword occurs; findings is empty exactly when evidence is empty.
C7_ExactlyFiredTriggers ==
    /\ IsResult(log_record) => ExactlyFired(log_record, LogTable(logs_text(context)))
    /\ IsResult(metric_record) =>
          ExactlyFired(metric_record, MetricTable(metrics_text(context)))

\* the second alternative of a trigger fired, next to another trigger
C7_Witness ==
    /\ IsResult(log_record) /\ IsResult(metric_record)
    /\ Contains(logs_text(context), "connection pool exhausted")
    /\ Len(log_record.findings) = 2
    /\ Len(metric_record.findings) = 2

\* C8: every record of analyze_logs has agent "logs_agent" and every record
\* of analyze_metrics has agent "metrics_agent", both roles of the selector.
C8_AgentIsSelectorRole ==
    /\ IsResult(log_record) =>
          log_record.agent = "logs_agent" /\ log_record.agent \in Roles
    /\ IsResult(metric_record) =>
          metric_record.agent = "metrics_agent" /\ metric_record.agent \in Roles

Returned == {r \in {selection, log_record, metric_record, verdict} : r # None}

\* C9: without incident_id every operation ends in an error, and without
\* severity synthesize_verdict does; a result never carries an incident_id
\* other than the incident's; a missing expected_symptoms, logs or metrics
\* key is no error and gives what the empty mapping gives.
C9_ShapeErrors ==
    /\ "incident_id" \notin DOMAIN incident => \A r \in Returned : r = KeyError
    /\ "severity" \notin DOMAIN incident => (verdict # None => verdict = KeyError)
    /\ \A r \in Returned :
          IsResult(r) => /\ "incident_id" \in DOMAIN incident
                         /\ r.incident_id = incident["incident_id"]
    /\ IsResult(verdict) => /\ "severity" \in DOMAIN incident
                            /\ verdict.severity = incident["severity"]
    /\ "incident_id" \in DOMAIN incident =>
          /\ ("expected_symptoms" \notin DOMAIN incident /\ selection # None) =>
                IsResult(selection) /\ selection.agents_to_call = <<>>
          /\ ("logs" \notin DOMAIN context /\ log_record # None) =>
                /\ IsResult(log_record)
                /\ log_record.findings = <<>> /\ log_record.evidence = <<>>
          /\ ("metrics" \notin DOMAIN context /\ metric_record # None) =>
                /\ IsResult(metric_record)
                /\ metric_record.findings = <<>> /\ metric_record.evidence = <<>>

C9_Witness ==
    /\ "incident_id" \notin DOMAIN incident
    /\ selection = KeyError /\ log_record = KeyError
    /\ metric_record = KeyError /\ verdict = KeyError

\* no agent was selected and synthesize_verdict got the empty list
InvestigationSkipped ==
    /\ IsResult(selection) /\ selection.agents_to_call = <<>>
    /\ verdict # None /\ synth_input = <<>>
    /\ "severity" \in DOMAIN incident

\* C10: when no agent is selected and synthesize_verdict is called with the
\* empty list, it returns "Undetermined", an empty failure_summary, empty
\* immediate and short_term, the three fixed long_term entries, and the
\* incident's incident_id and severity.
C10_SkippedInvestigation ==
    InvestigationSkipped =>
        /\ IsResult(verdict)
        /\ verdict.root_cause = "Undetermined"
        /\ verdict.failure_summary = <<>>
        /\ verdict.recommended_actions.immediate = <<>>
        /\ verdict.recommended_actions.short_term = <<>>
        /\ verdict.recommended_actions.long_term = ThreeFixedEntries
        /\ verdict.incident_id = incident["incident_id"]
        /\ verdict.severity = incident["severity"]

C10_Witness == InvestigationSkipped /\ log_record = None

\* what the rule chain must return for a combined text
RuleChainHolds(v, text) ==
    /\ v.root_cause \in
         {"Undetermined",
          "Database connection pool exhaustion caused by "
          \o "application scaling without corresponding database capacity"}
    /\ v.root_cause # "Undetermined"
         <=> (Contains(text, "connection") \/ Contains(text, "dbtimeout"))
    /\ RetryStormEntry \in Range(v.failure_summary) <=> Contains(text, "retry")
    /\ AlignmentEntry \in Range(v.failure_summary) <=> Contains(text, "autoscaling")
    /\ "Reduce application replica count" \in Range(v.recommended_actions.short_term)
         <=> Contains(text, "autoscaling")
    /\ "Rollback recent configuration deployment"
         \in Range(v.recommended_actions.immediate)
         <=> (Contains(text, "deployment") \/ Contains(text, "config"))

\* C11: root_cause is the pool-exhaustion narrative exactly when the combined
\* text has "connection" or "dbtimeout" and "Undetermined" otherwise; the
\* retry, autoscaling and deployment/config rules never touch it, and their
\* summary and remediation entries appear whether or not rule 1 matched.
C11_RootCauseByRuleOne ==
    IsResult(verdict) =>
        \A text \in {combined_text(synth_input)} : RuleChainHolds(verdict, text)

\* rules 2 and 3 fired without rule 1
C11_Witness ==
    /\ IsResult(verdict)
    /\ verdict.root_cause = "Undetermined"
    /\ verdict.failure_summary = <<RetryStormEntry, AlignmentEntry>>
    /\ Len(synth_input) = 2

\* rule 1 fired through "dbtimeout" alone, next to rule 4
C11_WitnessDbTimeout ==
    /\ IsResult(verdict)
    /\ ~Contains(combined_text(synth_input), "connection")
    /\ Len(verdict.recommended_actions.immediate) = 2

\* the list passed to synthesize_verdict holds a record an extractor returned
ExtractorRecordPassed ==
    /\ IsResult(verdict)
    /\ \E i \in DOMAIN synth_input : synth_input[i] \in ExtraRecords

\* C12: a list with at least one record of analyze_logs or analyze_metrics
\* always gives the pool-exhaustion root cause and the max_connections entry,
\* also when no trigger fired: the serialized record (its fixed hypothesis)
\* holds "connection", so no extractor record leaves root_cause Undetermined.
C12_ExtractorRecordForcesRootCause ==
    /\ ExtractorRecordPassed =>
          /\ verdict.root_cause =
               "Database connection pool exhaustion caused by "
               \o "application scaling without corresponding database capacity"
          /\ MaxConnectionsEntry \in Range(verdict.failure_summary)
    /\ \A r \in ExtraRecords : Contains(combined_text(<<r>>), "connection")

\* a single record of the log extractor in which no trigger fired
C12_Witness ==
    /\ ExtractorRecordPassed
    /\ synth_input = <<log_record>>
    /\ log_record.findings = <<>> /\ log_record.evidence = <<>>
====
